---- MODULE Spec2Model ----
(***************************************************************************)
(* Model of src/src/main.cpp: a six-servo controller that reads command    *)
(* lines from the Bluetooth serial port, dispatches them (processCommand)  *)
(* and moves at most one attached servo one degree per throttled pass of   *)
(* loop().                                                                 *)
(*                                                                         *)
(* A character is a one-character string; the byte 0 is written "NUL".     *)
(* A C string is the sequence of characters before the first NUL.          *)
(*                                                                         *)
(* Time.  The code reads millis() only in the differences                  *)
(* millis() - lastMoveMs and millis() - lastInfoMs, so the model keeps     *)
(* these two differences (moveElapsed, infoElapsed).  Each is kept up to   *)
(* the threshold it is compared with: every larger value takes the same    *)
(* branch.  "lastMoveMs = millis()" is moveElapsed' = 0.                   *)
(***************************************************************************)
EXTENDS Integers, Sequences, FiniteSets, TLC

\* ------------------------------------------------------------------------
\* Program constants
\* ------------------------------------------------------------------------
NUM_SERVOS == 6

Servos == 0 .. (NUM_SERVOS - 1)

SERVO_NAMES == [i \in Servos |-> <<"A", "B", "C", "D", "E", "F">>[i + 1]]

minAngles == [i \in Servos |-> <<0, 45, 0, 90, 0, 90>>[i + 1]]

maxAngles == [i \in Servos |-> <<180, 90, 85, 180, 180, 180>>[i + 1]]

moveSpeed == 20

ReadyHintMs == 5000

BufferLimit == 31

IntBits == 16

\* ------------------------------------------------------------------------
\* Bounds of the model
\* ------------------------------------------------------------------------
\* number of lines the sender transmits in one run
MaxLines == 2

\* length of the longest line the sender transmits
MaxLineLen == 40

\* ------------------------------------------------------------------------
\* Characters and the C library functions the code calls
\* ------------------------------------------------------------------------
NUL == "NUL"

LowerCase == <<"a", "b", "c", "d", "e", "f", "g", "h", "i", "j", "k", "l", "m",
               "n", "o", "p", "q", "r", "s", "t", "u", "v", "w", "x", "y", "z">>

UpperCase == <<"A", "B", "C", "D", "E", "F", "G", "H", "I", "J", "K", "L", "M",
               "N", "O", "P", "Q", "R", "S", "T", "U", "V", "W", "X", "Y", "Z">>

Digits == <<"0", "1", "2", "3", "4", "5", "6", "7", "8", "9">>

toupper(ch) ==
    IF \E k \in 1..26 : LowerCase[k] = ch
    THEN UpperCase[CHOOSE k \in 1..26 : LowerCase[k] = ch]
    ELSE ch

isdigit(ch) == \E k \in 1..10 : Digits[k] = ch

DigitValue(ch) == (CHOOSE k \in 1..10 : Digits[k] = ch) - 1

isspace(ch) == ch \in {" ", "\t", "\n", "\r", "\f", "VT"}

\* the characters of a char array up to its first NUL
RECURSIVE CStr(_)
CStr(buf) ==
    IF buf = <<>> \/ Head(buf) = NUL THEN <<>>
    ELSE <<Head(buf)>> \o CStr(Tail(buf))

strlen(s) == Len(CStr(s))

\* a value reduced to the range of a signed int of IntBits bits
ToInt(n) ==
    LET m == n % (2 ^ IntBits)
    IN  IF m >= 2 ^ (IntBits - 1) THEN m - 2 ^ IntBits ELSE m

RECURSIVE SkipSpace(_)
SkipSpace(s) ==
    IF s # <<>> /\ isspace(Head(s)) THEN SkipSpace(Tail(s)) ELSE s

RECURSIVE AtoiDigits(_, _)
AtoiDigits(s, acc) ==
    IF s # <<>> /\ isdigit(Head(s))
    THEN AtoiDigits(Tail(s), ToInt(acc * 10 + DigitValue(Head(s))))
    ELSE acc

\* atoi: leading white space, an optional sign, then digits; 0 when no
\* digits follow
atoi(str) ==
    LET s == SkipSpace(CStr(str))
    IN  IF s # <<>> /\ Head(s) = "-" THEN ToInt(0 - AtoiDigits(Tail(s), 0))
        ELSE IF s # <<>> /\ Head(s) = "+" THEN AtoiDigits(Tail(s), 0)
        ELSE AtoiDigits(s, 0)

\* ------------------------------------------------------------------------
\* Lines written by the program.  A line is the sequence of the pieces that
\* print/println/sprintf put on the port; %c and %d pieces keep their value.
\* ------------------------------------------------------------------------
BannerSerial ==
    << <<"--- 6-DOF Servo Control Ready ---">>,
       <<"Send 'SERVOANGLE' (e.g., A90). Send '?' for HELP. Send 'G' for STATUS.">> >>

BannerBT ==
    << <<"6-DOF Control Ready. Use 'SERVOANGLE' (e.g., A90). '?'=HELP, 'G'=STATUS">> >>

ReadyMsg ==
    <<"READY: Use A..F+angle (e.g., A90, F150), '?' for HELP, 'G' for STATUS">>

DoneMsg(i, angle) == <<"DONE:", SERVO_NAMES[i], "=", angle>>

OkMsg(i, angle) ==
    <<"OK:", SERVO_NAMES[i], "->", angle, " (range ", minAngles[i], "-",
      maxAngles[i], ")">>

ErrRangeMsg(i) == <<"ERR:", SERVO_NAMES[i], " range ", minAngles[i], "-", maxAngles[i]>>

UnknownMsg(cmdStr) == <<"ERR:Unknown cmd '", CStr(cmdStr), "'">>

HelpLines ==
    << <<"HELP: Send SERVOANGLE (e.g., A90 or F150). Ranges:">> >>
    \o [k \in 1..NUM_SERVOS |->
          <<" ", SERVO_NAMES[k - 1], ": ", minAngles[k - 1], "-", maxAngles[k - 1]>>]

\* variant: the angle of servo A is printed for every servo
StatusMsgFirstServo(angles, speed) ==
    <<"STATUS:">>
    \o [k \in 1..(2 * NUM_SERVOS) |->
          IF k % 2 = 1 THEN <<" ", SERVO_NAMES[(k - 1) \div 2], "=">>
          ELSE angles[0]]
    \o <<" | SPEED=", speed>>

StatusMsg(angles, speed) ==
    <<"STATUS:">>
    \o [k \in 1..(2 * NUM_SERVOS) |->
          IF k % 2 = 1 THEN <<" ", SERVO_NAMES[(k - 1) \div 2], "=">>
          ELSE angles[(k - 2) \div 2]]
    \o <<" | SPEED=", speed>>

\* ------------------------------------------------------------------------
\* State
\* ------------------------------------------------------------------------
VARIABLES
    currentAngles,    \* int currentAngles[NUM_SERVOS]
    targetAngles,     \* int targetAngles[NUM_SERVOS]
    attached,         \* servos[i].attached()
    activeServo,      \* index of the servo that may move, -1 for none
    led,              \* level of LED_PIN
    btCommandBuffer,  \* the characters btCommandBuffer[0 .. btBufferIndex-1]
    btBufferIndex,    \* next write position in btCommandBuffer
    moveElapsed,      \* millis() - lastMoveMs, kept up to moveSpeed
    infoElapsed,      \* millis() - lastInfoMs, kept up to ReadyHintMs + 1
    pc,               \* position in loop(): "drain", "move" or "ready"
    rx,               \* bytes of the line on its way into BTSerial
    btOut,            \* lines the last step of loop() wrote to BTSerial
    serOut,           \* lines the last step of loop() wrote to Serial
    sent,             \* number of lines the sender has transmitted
    accepted,         \* history: number of motion requests accepted so far
    rxLine,           \* history: the characters read since the last terminator
    dispatched,       \* history: the string that the last step of loop()
                      \* passed to processCommand, as <<string>>; <<>> if none
    activeBefore,     \* history: activeServo before that call; -1 if none
    detachedByStep,   \* history: the servos the last step of loop() called
                      \* detach() on
    msgElapsed        \* history: time since a line was last written to a
                      \* port, kept up to ReadyHintMs + 1

vars == <<currentAngles, targetAngles, attached, activeServo, led,
          btCommandBuffer, btBufferIndex, moveElapsed, infoElapsed, pc, rx,
          btOut, serOut, sent, accepted, rxLine, dispatched, activeBefore,
          detachedByStep, msgElapsed>>

servoState == <<currentAngles, targetAngles, attached, activeServo, led>>

\* ------------------------------------------------------------------------
\* Helpers (detachAllExcept, attachIfNeeded) on the attached() flags
\* ------------------------------------------------------------------------
detachAllExcept(att, keepIdx) ==
    [i \in Servos |-> IF i # keepIdx /\ att[i] THEN FALSE ELSE att[i]]

\* variant: the test of attached() is inverted, the servo is never attached
attachIfNeededInverted(att, idx) ==
    IF att[idx] THEN [att EXCEPT ![idx] = TRUE] ELSE att

attachIfNeeded(att, idx) ==
    IF ~att[idx] THEN [att EXCEPT ![idx] = TRUE] ELSE att

\* variant: the servo that was active is detached even when the request
\* names it
DetachPreviousAlways(att, active, servoIndex) ==
    IF active # -1 /\ att[active]
    THEN [att EXCEPT ![active] = FALSE]
    ELSE att

\* lines 191-196: the servo that was active is detached when the request
\* names another one
DetachPrevious(att, active, servoIndex) ==
    IF active # -1 /\ active # servoIndex /\ att[active]
    THEN [att EXCEPT ![active] = FALSE]
    ELSE att

\* ------------------------------------------------------------------------
\* processCommand(cmdStr, BTSerial)
\* ------------------------------------------------------------------------
\* variant: a character that names no servo stands for servo A
ServoIndexDefault(u) ==
    IF \E i \in Servos : SERVO_NAMES[i] = u
    THEN CHOOSE i \in Servos : SERVO_NAMES[i] = u
    ELSE 0

\* the loop of lines 180-183: index of the servo named u, -1 if none
ServoIndex(u) ==
    IF \E i \in Servos : SERVO_NAMES[i] = u
    THEN CHOOSE i \in Servos : SERVO_NAMES[i] = u
    ELSE -1

\* variant: the lower bound is not tested
InRangeNoMin(servoIndex, newAngle) == newAngle <= maxAngles[servoIndex]

InRange(servoIndex, newAngle) ==
    newAngle >= minAngles[servoIndex] /\ newAngle <= maxAngles[servoIndex]

\* variant: the length of the command is not tested
IsMotionCommandNoLength(cmdStr) ==
    ServoIndex(toupper(CStr(cmdStr)[1])) # -1

\* variant: a digit is required after the servo letter
IsMotionCommandStrict(cmdStr) ==
    /\ ServoIndex(toupper(CStr(cmdStr)[1])) # -1
    /\ strlen(cmdStr) > 1
    /\ isdigit(CStr(cmdStr)[2])

\* the guard of line 185
IsMotionCommand(cmdStr) ==
    ServoIndex(toupper(CStr(cmdStr)[1])) # -1 /\ strlen(cmdStr) > 1

\* variant: the number is parsed from position 0, the servo letter included
ParsedAngleFromStart(cmdStr) == atoi(CStr(cmdStr))

\* the integer parsed from position 1 on (line 187)
ParsedAngle(cmdStr) == atoi(Tail(CStr(cmdStr)))

\* variant: the servo that was active is set to its target before the power
\* moves to the requested servo
AcceptMotionFinishPrevious(servoIndex, newAngle) ==
    /\ attached' = attachIfNeeded(
                       detachAllExcept(
                           DetachPrevious(attached, activeServo, servoIndex),
                           servoIndex),
                       servoIndex)
    /\ targetAngles' = [targetAngles EXCEPT ![servoIndex] = newAngle]
    /\ activeServo' = servoIndex
    /\ led' = TRUE
    /\ btOut' = <<OkMsg(servoIndex, newAngle)>>
    /\ serOut' = <<OkMsg(servoIndex, newAngle)>>
    /\ accepted' = accepted + 1
    /\ detachedByStep' =
           {i \in Servos :
               /\ attached[i]
               /\ ~detachAllExcept(
                       DetachPrevious(attached, activeServo, servoIndex),
                       servoIndex)[i]}
    /\ currentAngles' =
           IF activeServo # -1 /\ activeServo # servoIndex
           THEN [currentAngles EXCEPT ![activeServo] = targetAngles[activeServo]]
           ELSE currentAngles

\* lines 189-206: an accepted motion request
AcceptMotion(servoIndex, newAngle) ==
    /\ attached' = attachIfNeeded(
                       detachAllExcept(
                           DetachPrevious(attached, activeServo, servoIndex),
                           servoIndex),
                       servoIndex)
    /\ targetAngles' = [targetAngles EXCEPT ![servoIndex] = newAngle]
    /\ activeServo' = servoIndex
    /\ led' = TRUE
    /\ btOut' = <<OkMsg(servoIndex, newAngle)>>
    /\ serOut' = <<OkMsg(servoIndex, newAngle)>>
    /\ accepted' = accepted + 1
    /\ detachedByStep' =
           {i \in Servos :
               /\ attached[i]
               /\ ~detachAllExcept(
                       DetachPrevious(attached, activeServo, servoIndex),
                       servoIndex)[i]}
    /\ UNCHANGED currentAngles

\* variant: the range error is written to the port of the command only
RejectMotionOneChannel(servoIndex) ==
    /\ btOut' = <<ErrRangeMsg(servoIndex)>>
    /\ serOut' = <<>>
    /\ detachedByStep' = {}
    /\ UNCHANGED <<servoState, accepted>>

\* lines 207-212: a motion request out of the servo's range
RejectMotion(servoIndex) ==
    /\ btOut' = <<ErrRangeMsg(servoIndex)>>
    /\ serOut' = <<ErrRangeMsg(servoIndex)>>
    /\ detachedByStep' = {}
    /\ UNCHANGED <<servoState, accepted>>

processCommand(cmdStr) ==
    IF CStr(cmdStr) = <<>>
    THEN \* line 150: empty command
         /\ btOut' = <<>>
         /\ serOut' = <<>>
         /\ detachedByStep' = {}
         /\ UNCHANGED <<servoState, accepted>>
    ELSE LET u == toupper(CStr(cmdStr)[1])
         IN  IF u = "?" \/ u = "H"
             THEN /\ btOut' = HelpLines
                  /\ serOut' = <<>>
                  /\ detachedByStep' = {}
                  /\ UNCHANGED <<servoState, accepted>>
             ELSE IF u = "G"
             THEN /\ btOut' = <<StatusMsg(currentAngles, moveSpeed)>>
                  /\ serOut' = <<>>
                  /\ detachedByStep' = {}
                  /\ UNCHANGED <<servoState, accepted>>
             ELSE IF IsMotionCommand(cmdStr)
             THEN IF InRange(ServoIndex(u), ParsedAngle(cmdStr))
                  THEN AcceptMotion(ServoIndex(u), ParsedAngle(cmdStr))
                  ELSE RejectMotion(ServoIndex(u))
             ELSE /\ btOut' = <<UnknownMsg(cmdStr)>>
                  /\ serOut' = <<>>
                  /\ detachedByStep' = {}
                  /\ UNCHANGED <<servoState, accepted>>

\* ------------------------------------------------------------------------
\* loop(), first part: the bytes available on BTSerial (lines 99-114)
\* ------------------------------------------------------------------------
\* variant: the carriage return is no end of line
IsTerminatorNewline(c) == c = "\n"

\* line 104: the end of a line
IsTerminator(c) == c = "\n" \/ c = "\r"

\* variant: the test admits one character more
HasRoomOneMore(index) == index <= BufferLimit

\* line 110: room for one more character
HasRoom(index) == index < BufferLimit

\* one pass of the while loop: one byte read from BTSerial
ReadByte ==
    /\ pc = "drain"
    /\ rx # <<>>
    /\ rx' = Tail(rx)
    /\ rxLine' = IF IsTerminator(Head(rx)) THEN <<>> ELSE Append(rxLine, Head(rx))
    /\ LET c == Head(rx)
       IN  IF IsTerminator(c)
           THEN IF btBufferIndex > 0
                THEN /\ processCommand(btCommandBuffer)
                     /\ dispatched' = <<CStr(btCommandBuffer)>>
                     /\ activeBefore' = activeServo
                     /\ btBufferIndex' = 0
                     /\ btCommandBuffer' = <<>>
                     /\ infoElapsed' = 0
                ELSE /\ btOut' = <<>>
                     /\ serOut' = <<>>
                     /\ dispatched' = <<>>
                     /\ activeBefore' = -1
                     /\ detachedByStep' = {}
                     /\ UNCHANGED <<servoState, accepted, btBufferIndex,
                                    btCommandBuffer, infoElapsed>>
           ELSE /\ IF HasRoom(btBufferIndex)
                   THEN /\ btCommandBuffer' = Append(btCommandBuffer, c)
                        /\ btBufferIndex' = btBufferIndex + 1
                   ELSE UNCHANGED <<btCommandBuffer, btBufferIndex>>
                /\ btOut' = <<>>
                /\ serOut' = <<>>
                /\ dispatched' = <<>>
                /\ activeBefore' = -1
                /\ detachedByStep' = {}
                /\ UNCHANGED <<servoState, accepted, infoElapsed>>
    /\ msgElapsed' = IF btOut' # <<>> \/ serOut' # <<>> THEN 0 ELSE msgElapsed
    /\ UNCHANGED <<moveElapsed, pc, sent>>

\* BTSerial.available() returns 0: no byte has arrived yet (any byte still in
\* rx is on its way), the while loop ends
DrainDone ==
    /\ pc = "drain"
    /\ pc' = "move"
    /\ activeBefore' = -1
    /\ detachedByStep' = {}
    /\ msgElapsed' = msgElapsed
    /\ dispatched' = <<>>
    /\ btOut' = <<>>
    /\ serOut' = <<>>
    /\ UNCHANGED <<servoState, btCommandBuffer, btBufferIndex, moveElapsed,
                   infoElapsed, rx, sent, accepted, rxLine>>

\* ------------------------------------------------------------------------
\* loop(), second part: the movement of the active servo (lines 117-138)
\* ------------------------------------------------------------------------
\* variant: the step is due at every pass
StepDueAlways(elapsed) == TRUE

\* variant: the step is due only after more than moveSpeed
StepDueStrict(elapsed) == elapsed > moveSpeed

\* line 119: enough time has passed since the last step
StepDue(elapsed) == elapsed >= moveSpeed

\* variant: the comparison is reversed, the step leads away from the target
StepAway(current, target) ==
    IF current > target THEN current + 1 ELSE current - 1

\* lines 124-125: one degree toward the target
StepToward(current, target) ==
    IF current < target THEN current + 1 ELSE current - 1

\* variant: arrival is never detected
NeverArrived(current, target) == TRUE

\* line 123: the servo has not reached its target
NotArrived(current, target) == current # target

\* lines 117, 119 false: nothing to move, or the step is not due yet
MoveSkip ==
    /\ pc = "move"
    /\ activeServo = -1 \/ ~StepDue(moveElapsed)
    /\ pc' = "ready"
    /\ activeBefore' = -1
    /\ detachedByStep' = {}
    /\ msgElapsed' = msgElapsed
    /\ dispatched' = <<>>
    /\ btOut' = <<>>
    /\ serOut' = <<>>
    /\ UNCHANGED <<servoState, btCommandBuffer, btBufferIndex, moveElapsed,
                   infoElapsed, rx, sent, accepted, rxLine>>

\* lines 120-126: one step of the active servo
MoveStep ==
    /\ pc = "move"
    /\ activeServo # -1
    /\ StepDue(moveElapsed)
    /\ NotArrived(currentAngles[activeServo], targetAngles[activeServo])
    /\ moveElapsed' = 0
    /\ currentAngles' =
           [currentAngles EXCEPT ![activeServo] =
               StepToward(currentAngles[activeServo], targetAngles[activeServo])]
    /\ pc' = "ready"
    /\ activeBefore' = -1
    /\ detachedByStep' = {}
    /\ msgElapsed' = msgElapsed
    /\ dispatched' = <<>>
    /\ btOut' = <<>>
    /\ serOut' = <<>>
    /\ UNCHANGED <<targetAngles, attached, activeServo, led, btCommandBuffer,
                   btBufferIndex, infoElapsed, rx, sent, accepted, rxLine>>

\* variant: the servo stays attached on arrival
DetachArrivedNot(att, i) == att

\* line 129: the servo is detached on arrival
DetachArrived(att, i) == IF att[i] THEN [att EXCEPT ![i] = FALSE] ELSE att

\* lines 120, 128-135: the active servo has reached its target
MoveArrive ==
    /\ pc = "move"
    /\ activeServo # -1
    /\ StepDue(moveElapsed)
    /\ ~NotArrived(currentAngles[activeServo], targetAngles[activeServo])
    /\ moveElapsed' = 0
    /\ attached' = DetachArrived(attached, activeServo)
    /\ activeServo' = -1
    /\ led' = FALSE
    /\ serOut' = <<DoneMsg(activeServo, currentAngles[activeServo])>>
    /\ detachedByStep' = {i \in Servos : attached[i] /\ ~attached'[i]}
    /\ activeBefore' = -1
    /\ msgElapsed' = 0
    /\ dispatched' = <<>>
    /\ btOut' = <<DoneMsg(activeServo, currentAngles[activeServo])>>
    /\ pc' = "ready"
    /\ UNCHANGED <<currentAngles, targetAngles, btCommandBuffer, btBufferIndex,
                   infoElapsed, rx, sent, accepted, rxLine>>

\* ------------------------------------------------------------------------
\* loop(), third part: the READY hint (lines 141-145)
\* ------------------------------------------------------------------------
HintDue(active, elapsed) == active = -1 /\ elapsed > ReadyHintMs

ReadyHint ==
    /\ pc = "ready"
    /\ HintDue(activeServo, infoElapsed)
    /\ detachedByStep' = {}
    /\ activeBefore' = -1
    /\ msgElapsed' = 0
    /\ dispatched' = <<>>
    /\ btOut' = <<ReadyMsg>>
    /\ serOut' = <<ReadyMsg>>
    /\ infoElapsed' = 0
    /\ pc' = "drain"
    /\ UNCHANGED <<servoState, btCommandBuffer, btBufferIndex, moveElapsed, rx,
                   sent, accepted, rxLine>>

ReadySkip ==
    /\ pc = "ready"
    /\ ~HintDue(activeServo, infoElapsed)
    /\ pc' = "drain"
    /\ activeBefore' = -1
    /\ detachedByStep' = {}
    /\ msgElapsed' = msgElapsed
    /\ dispatched' = <<>>
    /\ btOut' = <<>>
    /\ serOut' = <<>>
    /\ UNCHANGED <<servoState, btCommandBuffer, btBufferIndex, moveElapsed,
                   infoElapsed, rx, sent, accepted, rxLine>>

\* ------------------------------------------------------------------------
\* The environment: the sender on the Bluetooth link, and the clock
\* ------------------------------------------------------------------------
\* a line of n characters that names no command: "Z" then the digits 2, 3, ...
LongLine(n) ==
    [k \in 1..n |-> IF k = 1 THEN "Z" ELSE Digits[(k % 10) + 1]] \o <<"\n">>

\* accepted motion requests, one or two degrees from the start position
MotionLines ==
    { <<"A", "2", "\n">>, <<"A", "0", "\n">>, <<"b", "4", "6", "\n">>,
      <<"C", "1", "\r", "\n">>, <<"D", "9", "1", "\n">>, <<"e", "1", "\r">>,
      <<"F", "9", "1", "\n">>, <<"A", "+", "1", "x", "\n">>,
      <<"E", " ", "2", "\n">> }

\* motion requests out of the servo's range
RangeLines ==
    { <<"A", "1", "8", "1", "\n">>, <<"B", "1", "0", "0", "\n">>,
      <<"b", "4", "4", "\n">>, <<"C", "8", "6", "\n">>, <<"D", "8", "9", "\n">>,
      <<"E", "-", "1", "\n">>, <<"F", "0", "\n">> }

\* a servo letter followed by no digit
NoDigitLines ==
    { <<"A", "x", "\n">>, <<"C", " ", "\n">>, <<"B", "x", "\n">>,
      <<"f", "-", "\n">> }

\* a servo letter alone
LetterLines == { <<SERVO_NAMES[i], "\n">> : i \in Servos } \cup { <<"c", "\n">> }

OtherLines ==
    { <<"?", "\n">>, <<"h", "\n">>, <<"G", "\n">>, <<"g", "7", "\r", "\n">>,
      <<"Z", "9", "\n">>, <<"\n">>, <<"\r", "\n">>,
      <<NUL, "A", "1", "\n">>, <<"Z", NUL, "9", "\n">>, <<"A", "1", NUL, "8", "\n">> }

LongLines == { LongLine(BufferLimit), LongLine(BufferLimit + 1), LongLine(MaxLineLen) }

Lines ==
    MotionLines \cup RangeLines \cup NoDigitLines \cup LetterLines
        \cup OtherLines \cup LongLines

\* the sender transmits one more line, taken from the set L
SendFrom(L) ==
    /\ rx = <<>>
    /\ sent < MaxLines
    /\ rx' \in L
    /\ sent' = sent + 1
    /\ UNCHANGED <<servoState, btCommandBuffer, btBufferIndex, moveElapsed,
                   infoElapsed, pc, btOut, serOut, accepted, rxLine,
                   dispatched, activeBefore, detachedByStep, msgElapsed>>

Send == SendFrom(Lines)

\* the lines of the runs checked for progress: a request for every servo, a
\* request back to the start position, a rejected request and a query
ProgressLines ==
    { <<"A", "2", "\n">>, <<"A", "0", "\n">>, <<"b", "4", "6", "\n">>,
      <<"C", "1", "\r", "\n">>, <<"D", "9", "1", "\n">>, <<"e", "1", "\r">>,
      <<"F", "9", "2", "\n">>, <<"B", "1", "0", "0", "\n">>, <<"G", "\n">> }

SendProgress == SendFrom(ProgressLines)

Min(a, b) == IF a < b THEN a ELSE b

\* amounts by which millis() grows between two steps of loop()
Deltas == { ReadyHintMs, ReadyHintMs + 1 }

AdvanceTime ==
    \E d \in Deltas :
        /\ moveElapsed' = Min(moveElapsed + d, moveSpeed)
        /\ infoElapsed' = Min(infoElapsed + d, ReadyHintMs + 1)
        /\ msgElapsed' = Min(msgElapsed + d, ReadyHintMs + 1)
        /\ UNCHANGED <<servoState, btCommandBuffer, btBufferIndex, pc, rx,
                       btOut, serOut, sent, accepted, rxLine, dispatched,
                       activeBefore, detachedByStep>>

\* ------------------------------------------------------------------------
\* setup() and the specification
\* ------------------------------------------------------------------------
Init ==
    /\ currentAngles = [i \in Servos |-> minAngles[i]]
    /\ targetAngles = [i \in Servos |-> minAngles[i]]
    /\ attached = [i \in Servos |-> FALSE]
    /\ activeServo = -1
    /\ led = FALSE
    /\ btCommandBuffer = <<>>
    /\ btBufferIndex = 0
    /\ moveElapsed \in {0, moveSpeed}
    /\ infoElapsed = 0
    /\ pc = "drain"
    /\ rx = <<>>
    /\ btOut = BannerBT
    /\ serOut = BannerSerial
    /\ sent = 0
    /\ accepted = 0
    /\ rxLine = <<>>
    /\ dispatched = <<>>
    /\ activeBefore = -1
    /\ detachedByStep = {}
    /\ msgElapsed = 0

\* the steps of loop() after the bytes at hand have been read
Pass == DrainDone \/ MoveSkip \/ MoveStep \/ MoveArrive \/ ReadyHint \/ ReadySkip

Loop == ReadByte \/ Pass

Next == Send \/ AdvanceTime \/ Loop

Spec == Init /\ [][Next]_vars

NextProgress == SendProgress \/ AdvanceTime \/ Loop

\* loop() is called again and again and its while loop ends when no byte is
\* at hand; the clock keeps running; the sender is free to stay silent
FairSpec == Init /\ [][NextProgress]_vars /\ WF_vars(Pass) /\ WF_vars(AdvanceTime)

TypeOK ==
    /\ currentAngles \in [Servos -> 0..180]
    /\ targetAngles \in [Servos -> 0..180]
    /\ attached \in [Servos -> BOOLEAN]
    /\ activeServo \in {-1} \cup Servos
    /\ led \in BOOLEAN
    /\ btBufferIndex \in 0..BufferLimit
    /\ Len(btCommandBuffer) = btBufferIndex
    /\ moveElapsed \in 0..moveSpeed
    /\ infoElapsed \in 0..(ReadyHintMs + 1)
    /\ pc \in {"drain", "move", "ready"}
    /\ sent \in 0..MaxLines
    /\ accepted \in 0..sent
    /\ activeBefore \in {-1} \cup Servos
    /\ detachedByStep \subseteq Servos
    /\ msgElapsed \in 0..(ReadyHintMs + 1)

\* ------------------------------------------------------------------------
\* Properties
\* ------------------------------------------------------------------------
Powered == {i \in Servos : attached[i]}

\* C1: at most one servo is attached, and when activeServo names a servo
\* that servo is attached and every other servo is detached
C1_SingleActive ==
    /\ Cardinality(Powered) <= 1
    /\ activeServo # -1 => Powered = {activeServo}

\* a second request has moved the power from the first servo to another one
C1_Witness ==
    /\ accepted = 2
    /\ activeServo # -1
    /\ Powered = {activeServo}
    /\ \E i \in Servos : i # activeServo /\ currentAngles[i] # targetAngles[i]

\* C2: the current angle of every servo lies within the servo's range, and
\* is the minimum of the range as long as no request has been accepted
C2_AngleInRange ==
    \A i \in Servos :
        /\ currentAngles[i] >= minAngles[i]
        /\ currentAngles[i] <= maxAngles[i]
        /\ accepted = 0 => currentAngles[i] = minAngles[i]

\* one servo was abandoned away from its start position and another one has
\* moved since
C2_Witness ==
    \E i, j \in Servos :
        /\ i # j
        /\ currentAngles[i] # minAngles[i]
        /\ currentAngles[i] # targetAngles[i]
        /\ activeServo = j
        /\ currentAngles[j] # minAngles[j]

\* ------------------------------------------------------------------------
\* The protocol as the specification words it: the channel letters, the
\* decimal text of an angle, the text of a motion command and of the replies
\* ------------------------------------------------------------------------
ChannelLetter(c) == <<"A", "B", "C", "D", "E", "F">>[c + 1]

ChannelLetterLower(c) == <<"a", "b", "c", "d", "e", "f">>[c + 1]

RECURSIVE Decimal(_)
Decimal(n) ==
    IF n < 0 THEN <<"-">> \o Decimal(0 - n)
    ELSE IF n < 10 THEN <<Digits[n + 1]>>
    ELSE Decimal(n \div 10) \o <<Digits[(n % 10) + 1]>>

\* the texts of the motion command for channel c and angle a
MotionText(c, a) ==
    { <<ChannelLetter(c)>> \o Decimal(a), <<ChannelLetterLower(c)>> \o Decimal(a) }

NoticeOk(c, a) ==
    <<"OK:", ChannelLetter(c), "->", a, " (range ", minAngles[c], "-", maxAngles[c], ")">>

NoticeErrRange(c) ==
    <<"ERR:", ChannelLetter(c), " range ", minAngles[c], "-", maxAngles[c]>>

NoticeUnknown(raw) == <<"ERR:Unknown cmd '", raw, "'">>

NoticeDone(c, a) == <<"DONE:", ChannelLetter(c), "=", a>>

\* the step of loop() that reads a terminator and dispatches the buffer
DispatchStep ==
    /\ pc = "drain"
    /\ rx # <<>>
    /\ rx' = Tail(rx)
    /\ Head(rx) \in {"\n", "\r"}
    /\ btBufferIndex > 0

\* a pass of loop() through the movement logic
TickStep == pc = "move" /\ pc' = "ready"

Distance(i) ==
    IF currentAngles[i] >= targetAngles[i]
    THEN currentAngles[i] - targetAngles[i]
    ELSE targetAngles[i] - currentAngles[i]

\* C3: an accepted request for channel c and in-range angle a (the target
\* of c from then on, until the next accepted request) is followed, unless
\* another request is accepted first, by the arrival of c at a: the notice
\* DONE:c=a, no active channel and c detached
C3_EventuallyDone ==
    /\ [][accepted' = accepted => targetAngles' = targetAngles]_vars
    /\ \A c \in Servos : \A n \in 1 .. MaxLines :
          (/\ btOut = <<NoticeOk(c, targetAngles[c])>>
           /\ targetAngles[c] >= minAngles[c]
           /\ targetAngles[c] <= maxAngles[c]
           /\ accepted = n)
             ~> (\/ /\ currentAngles[c] = targetAngles[c]
                    /\ btOut = <<NoticeDone(c, targetAngles[c])>>
                    /\ serOut = <<NoticeDone(c, targetAngles[c])>>
                    /\ activeServo = -1
                    /\ ~attached[c]
                    /\ accepted = n
                 \/ accepted > n)

\* a servo has arrived two degrees away from its start position
C3_Witness ==
    \E c \in Servos :
        /\ currentAngles[c] = minAngles[c] + 2
        /\ btOut = <<NoticeDone(c, currentAngles[c])>>
        /\ activeServo = -1
        /\ ~attached[c]

\* C7: a pass through the movement logic changes the current angle of the
\* active servo only, by one degree or not at all, and a change brings the
\* angle one degree closer to the target
C7_StepTowardTarget ==
    [][TickStep =>
        \A i \in Servos :
            \/ currentAngles'[i] = currentAngles[i]
            \/ /\ i = activeServo
               /\ currentAngles'[i] \in {currentAngles[i] - 1, currentAngles[i] + 1}
               /\ Distance(i)' = Distance(i) - 1]_vars

\* the active servo has just been moved down by one degree toward a target
\* below its position
C7_Witness ==
    /\ pc = "ready"
    /\ moveElapsed = 0
    /\ activeServo # -1
    /\ currentAngles[activeServo] < minAngles[activeServo] + 2
    /\ currentAngles[activeServo] > targetAngles[activeServo]

\* the range of channel c
Range(c) == minAngles[c] .. maxAngles[c]

\* C4: the dispatch of the motion command for channel c and an angle a of
\* its range sets the target of c to a and leaves the other targets, makes c
\* the active channel, leaves c attached and every other channel detached,
\* changes no current angle and replies OK:c->a (range min-max)
C4_AcceptedRequest ==
    [][DispatchStep =>
        \A c \in Servos : \A a \in Range(c) :
            btCommandBuffer \in MotionText(c, a) =>
                /\ targetAngles' = [targetAngles EXCEPT ![c] = a]
                /\ activeServo' = c
                /\ attached' = [i \in Servos |-> i = c]
                /\ currentAngles' = currentAngles
                /\ btOut' = <<NoticeOk(c, a)>>]_vars

\* an accepted request has taken the power from another channel in motion
C4_Witness ==
    \E c \in Servos : \E a \in Range(c) :
        /\ dispatched \in {<<t>> : t \in MotionText(c, a)}
        /\ btOut = <<NoticeOk(c, a)>>
        /\ targetAngles[c] = a
        /\ activeServo = c
        /\ Powered = {c}
        /\ \E j \in Servos : j # c /\ currentAngles[j] # targetAngles[j]

\* angles out of the range of some channel
OutAngles == -9 .. 199

C6_Abandon ==
    /\ [][DispatchStep =>
            \A c1, c2 \in Servos : \A a \in Range(c2) :
                (/\ c1 # c2
                 /\ activeServo = c1
                 /\ currentAngles[c1] # targetAngles[c1]
                 /\ btCommandBuffer \in MotionText(c2, a)) =>
                    /\ ~attached'[c1]
                    /\ currentAngles'[c1] = currentAngles[c1]
                    /\ activeServo' = c2
                    /\ attached'[c2]]_vars
    /\ [][\A c \in Servos :
            /\ currentAngles'[c] # currentAngles[c] => activeServo = c
            /\ (activeServo' = c /\ activeServo # c) =>
                   /\ DispatchStep
                   /\ accepted' = accepted + 1
                   /\ btOut' = <<NoticeOk(c, targetAngles'[c])>>]_vars

\* channel c1 was abandoned one step from its start position, and the
\* channel that took the power has arrived since
C6_Witness ==
    \E c1, c2 \in Servos :
        /\ c1 # c2
        /\ currentAngles[c1] # targetAngles[c1]
        /\ currentAngles[c1] # minAngles[c1]
        /\ ~attached[c1]
        /\ btOut = <<NoticeDone(c2, targetAngles[c2])>>
        /\ currentAngles[c2] # minAngles[c2]

\* the first characters of a line, as many as the buffer takes
FirstChars(line) == SubSeq(line, 1, Min(Len(line), 31))

HasNul(str) == \E k \in 1 .. Len(str) : str[k] = "NUL"

\* the characters of str before its first NUL character, all if it has none
RECURSIVE BeforeNul(_)
BeforeNul(str) ==
    IF str = <<>> \/ Head(str) = "NUL" THEN <<>>
    ELSE <<Head(str)>> \o BeforeNul(Tail(str))

\* the step of loop() that reads a character other than a terminator
CharStep ==
    /\ pc = "drain"
    /\ rx # <<>>
    /\ rx' = Tail(rx)
    /\ Head(rx) \notin {"\n", "\r"}

\* C8 as stated: the string dispatched for a line is its first min(n, 31)
\* characters
C8_Original ==
    [][DispatchStep => dispatched' = <<FirstChars(rxLine)>>]_vars

\* C8, amended: the string dispatched for a line is its first min(n, 31)
\* characters, ended at the first NUL character among them if there is one;
\* a command that names nothing is echoed so; a character that comes when
\* 31 are buffered changes nothing and brings no reply
C8_FirstCharsDispatched ==
    /\ [][DispatchStep =>
            /\ dispatched' = <<BeforeNul(FirstChars(rxLine))>>
            /\ ~HasNul(FirstChars(rxLine)) => dispatched' = <<FirstChars(rxLine)>>
            /\ (rxLine[1] = "Z" /\ ~HasNul(FirstChars(rxLine))) =>
                   btOut' = <<NoticeUnknown(FirstChars(rxLine))>>]_vars
    /\ [][(CharStep /\ Len(rxLine) >= 31) =>
            /\ UNCHANGED <<btCommandBuffer, btBufferIndex>>
            /\ btCommandBuffer = FirstChars(rxLine)
            /\ btOut' = <<>>
            /\ serOut' = <<>>]_vars

\* a line of more than 31 characters was dispatched as its first 31
C8_Witness ==
    /\ dispatched # <<>>
    /\ Len(dispatched[1]) = 31
    /\ dispatched[1] = SubSeq(LongLine(MaxLineLen), 1, 31)
    /\ btOut = <<NoticeUnknown(dispatched[1])>>

\* a command made of a channel letter followed by no digit
LetterNoDigit(cmd) ==
    /\ cmd # <<>>
    /\ \E c \in Servos : cmd[1] \in {ChannelLetter(c), ChannelLetterLower(c)}
    /\ \A k \in 2 .. Len(cmd) : cmd[k] \notin {Digits[d] : d \in 1 .. 10}

ChannelOf(cmd) ==
    CHOOSE c \in Servos : cmd[1] \in {ChannelLetter(c), ChannelLetterLower(c)}

\* C9 as stated: a channel letter followed by no digit is an unknown command
C9_Original ==
    [][(DispatchStep /\ LetterNoDigit(btCommandBuffer)) =>
            /\ btOut' = <<NoticeUnknown(btCommandBuffer)>>
            /\ UNCHANGED <<currentAngles, targetAngles, attached, activeServo>>]_vars

\* C9, amended: a channel letter followed by one or more characters, none of
\* them a digit and the first not NUL, is a motion request for angle 0:
\* accepted as such by the channels whose range holds 0, rejected with the
\* range error by the others, and never an unknown command
C9_NoDigitIsAngleZero ==
    [][(/\ DispatchStep
        /\ LetterNoDigit(btCommandBuffer)
        /\ Len(btCommandBuffer) > 1
        /\ btCommandBuffer[2] # "NUL") =>
            LET c == ChannelOf(btCommandBuffer)
            IN  IF 0 \in Range(c)
                THEN /\ btOut' = <<NoticeOk(c, 0)>>
                     /\ targetAngles' = [targetAngles EXCEPT ![c] = 0]
                     /\ activeServo' = c
                     /\ attached' = [i \in Servos |-> i = c]
                     /\ currentAngles' = currentAngles
                ELSE /\ btOut' = <<NoticeErrRange(c)>>
                     /\ UNCHANGED <<currentAngles, targetAngles, attached,
                                    activeServo>>]_vars

\* "Ax" has made channel A active with target 0 and taken the power from
\* another channel
C9_Witness ==
    /\ dispatched = << <<"A", "x">> >>
    /\ btOut = <<NoticeOk(0, 0)>>
    /\ activeServo = 0
    /\ Powered = {0}
    /\ accepted = 2

\* C10: a channel letter alone is an unknown command: the reply is
\* ERR:Unknown cmd with the letter, and no target, attachment, current
\* angle or active channel changes
C10_LetterAlone ==
    [][DispatchStep =>
        \A c \in Servos :
            btCommandBuffer \in {<<ChannelLetter(c)>>, <<ChannelLetterLower(c)>>} =>
                /\ btOut' = <<NoticeUnknown(btCommandBuffer)>>
                /\ serOut' = <<>>
                /\ UNCHANGED <<currentAngles, targetAngles, attached, activeServo>>]_vars

\* the letter of a channel whose range holds 0 was answered as unknown while
\* no channel is active and that channel rests at 0
C10_Witness ==
    \E c \in {0, 2, 4} :
        /\ dispatched = << <<ChannelLetter(c)>> >>
        /\ btOut = <<NoticeUnknown(<<ChannelLetter(c)>>)>>
        /\ activeServo = -1
        /\ Powered = {}
        /\ targetAngles[c] = 0

\* the reply to a motion request: the acknowledgement or the range error
IsMotionReply(lines) ==
    \E c \in Servos :
        \/ lines = <<NoticeErrRange(c)>>
        \/ \E a \in Range(c) : lines = <<NoticeOk(c, a)>>

\* C11 as stated: the lines a dispatched command brings on Serial are the
\* lines it brings on BTSerial
C11_Original ==
    [][DispatchStep => serOut' = btOut']_vars

\* C11, amended: the reply to a motion request (OK or ERR range) is written
\* to BTSerial and to Serial alike; every other reply (HELP, STATUS,
\* ERR:Unknown cmd) is written to BTSerial and nothing to Serial
C11_ReplyChannels ==
    [][DispatchStep =>
        IF IsMotionReply(btOut')
        THEN serOut' = btOut'
        ELSE serOut' = <<>>]_vars

\* HELP was answered on BTSerial alone, after a motion request had been
\* acknowledged on both ports
C11_Witness ==
    /\ dispatched = << <<"?">> >>
    /\ Len(btOut) = 1 + NUM_SERVOS
    /\ serOut = <<>>
    /\ accepted = 1

\* the STATUS line for the current angles cur and the speed
NoticeStatus(cur, speed) ==
    <<"STATUS:", <<" ", "A", "=">>, cur[0], <<" ", "B", "=">>, cur[1],
      <<" ", "C", "=">>, cur[2], <<" ", "D", "=">>, cur[3],
      <<" ", "E", "=">>, cur[4], <<" ", "F", "=">>, cur[5],
      " | SPEED=", speed>>

\* C12: the dispatch of a command that begins with G or g replies the
\* STATUS line with the current angles of A..F as they are at that moment,
\* then the speed, and changes no current angle, target, attachment or
\* active channel
C12_Status ==
    [][(DispatchStep /\ btCommandBuffer[1] \in {"G", "g"}) =>
            /\ btOut' = <<NoticeStatus(currentAngles, moveSpeed)>>
            /\ UNCHANGED <<currentAngles, targetAngles, attached, activeServo>>]_vars

\* STATUS was answered while the active channel is between its start
\* position and its target
C12_Witness ==
    /\ dispatched # <<>>
    /\ dispatched[1] # <<>>
    /\ dispatched[1][1] \in {"G", "g"}
    /\ btOut = <<NoticeStatus(currentAngles, moveSpeed)>>
    /\ activeServo # -1
    /\ currentAngles[activeServo] # minAngles[activeServo]
    /\ currentAngles[activeServo] # targetAngles[activeServo]

\* the first characters that name a command
CommandChars ==
    {"?", "H", "h", "G", "g"}
        \cup {ChannelLetter(c) : c \in Servos}
        \cup {ChannelLetterLower(c) : c \in Servos}

\* C13: the dispatch of a non-empty command whose first character is none
\* of ?, H, G and A..F in either case replies ERR:Unknown cmd with the
\* command as it is, on BTSerial, and changes no current angle, target,
\* attachment or active channel
C13_Unknown ==
    [][DispatchStep =>
        LET cmd == BeforeNul(btCommandBuffer)
        IN  (cmd # <<>> /\ cmd[1] \notin CommandChars) =>
                /\ btOut' = <<NoticeUnknown(cmd)>>
                /\ ~HasNul(btCommandBuffer) =>
                       btOut' = <<NoticeUnknown(btCommandBuffer)>>
                /\ UNCHANGED <<currentAngles, targetAngles, attached,
                               activeServo>>]_vars

\* Z9 was answered as unknown while a channel is in motion
C13_Witness ==
    /\ dispatched = << <<"Z", "9">> >>
    /\ btOut = <<NoticeUnknown(<<"Z", "9">>)>>
    /\ activeServo # -1
    /\ attached[activeServo]
    /\ currentAngles[activeServo] # targetAngles[activeServo]

\* the step of loop() that reads a terminator
TerminatorStep ==
    /\ pc = "drain"
    /\ rx # <<>>
    /\ rx' = Tail(rx)
    /\ Head(rx) \in {"\n", "\r"}

\* a step of loop(): a byte is read, or the position in loop() changes
ProgramStep == (rx # <<>> /\ rx' = Tail(rx)) \/ pc' # pc

\* C14: a terminator read with a non-empty buffer dispatches one command,
\* the buffered characters, and leaves the buffer empty; a terminator read
\* with an empty buffer dispatches nothing, writes nothing and changes
\* nothing; no other step dispatches; so a line dispatches once at most
C14_OneDispatch ==
    /\ [][(TerminatorStep /\ btBufferIndex > 0) =>
            /\ dispatched' = <<BeforeNul(btCommandBuffer)>>
            /\ btBufferIndex' = 0
            /\ btCommandBuffer' = <<>>]_vars
    /\ [][(TerminatorStep /\ btBufferIndex = 0) =>
            /\ dispatched' = <<>>
            /\ btOut' = <<>>
            /\ serOut' = <<>>
            /\ UNCHANGED <<servoState, btCommandBuffer, btBufferIndex,
                           moveElapsed, infoElapsed, accepted>>]_vars
    /\ [][(ProgramStep /\ ~(TerminatorStep /\ btBufferIndex > 0)) =>
            dispatched' = <<>>]_vars
    /\ [](accepted <= sent)

\* the line C1 ended by CR and LF has been read to its end: one request was
\* accepted, and the buffer is empty
C14_Witness ==
    /\ sent = 1
    /\ rx = <<>>
    /\ pc = "drain"
    /\ dispatched = <<>>
    /\ rxLine = <<>>
    /\ accepted = 1
    /\ targetAngles[2] = 1
    /\ btBufferIndex = 0
    /\ btOut = <<>>

\* C15: the active channel changes from none to a channel only by the
\* dispatch of a motion command for that channel with an angle of its
\* range, and from a channel to none only by a pass through the movement
\* logic that finds the step due and the channel at its target; no dispatch
\* sets it to none, and no pass through the movement logic sets it to a
\* channel
C15_ActiveTransitions ==
    [][/\ (activeServo = -1 /\ activeServo' # -1) =>
              /\ DispatchStep
              /\ btCommandBuffer[1] \in {ChannelLetter(activeServo'),
                                          ChannelLetterLower(activeServo')}
              /\ targetAngles'[activeServo'] \in Range(activeServo')
              /\ btOut' = <<NoticeOk(activeServo', targetAngles'[activeServo'])>>
       /\ (activeServo # -1 /\ activeServo' = -1) =>
              /\ TickStep
              /\ moveElapsed >= moveSpeed
              /\ currentAngles[activeServo] = targetAngles[activeServo]
       /\ (DispatchStep /\ activeServo # -1) => activeServo' # -1
       /\ TickStep => activeServo' \in {-1, activeServo}]_vars

\* a channel became active from idle by a second request and has arrived
C15_Witness ==
    \E c \in Servos :
        /\ accepted = 2
        /\ activeServo = -1
        /\ btOut = <<NoticeDone(c, targetAngles[c])>>
        /\ \A i \in Servos : currentAngles[i] = targetAngles[i]
        /\ currentAngles[c] # minAngles[c]

\* C16: a pass through the movement logic with an active channel and less
\* than moveSpeed elapsed since the last step changes no angle, attachment
\* or active channel, writes nothing and leaves the time of the last step;
\* with moveSpeed or more elapsed it sets the time of the last step to the
\* present, and either moves the channel or ends its motion
C16_Throttle ==
    [][(TickStep /\ activeServo # -1) =>
        IF moveElapsed < moveSpeed
        THEN /\ UNCHANGED <<currentAngles, targetAngles, attached, activeServo,
                            led, moveElapsed>>
             /\ btOut' = <<>>
             /\ serOut' = <<>>
        ELSE /\ moveElapsed' = 0
             /\ IF currentAngles[activeServo] # targetAngles[activeServo]
                THEN /\ currentAngles' # currentAngles
                     /\ activeServo' = activeServo
                ELSE /\ currentAngles' = currentAngles
                     /\ activeServo' = -1]_vars

\* a pass through the movement logic has left the active channel where it
\* is, short of its target, because the step was not due
C16_Witness ==
    /\ pc = "ready"
    /\ accepted = 1
    /\ activeServo # -1
    /\ \A i \in Servos : currentAngles[i] = minAngles[i]
    /\ targetAngles[activeServo] # currentAngles[activeServo]
    /\ moveElapsed < moveSpeed
    /\ btOut = <<>>

\* C18: the write index of the command buffer is at least 0 and at most 31,
\* and the buffer holds that many characters
C18_IndexInBuffer ==
    /\ btBufferIndex >= 0
    /\ btBufferIndex <= 31
    /\ Len(btCommandBuffer) = btBufferIndex

\* the buffer is full and characters of the line have been dropped
C18_Witness ==
    /\ btBufferIndex = 31
    /\ Len(rxLine) > 32
    /\ rx # <<>>

\* C19: the attached channels are the active channel alone when there is
\* one, and none when there is none
C19_PoweredIsActive ==
    Powered = IF activeServo = -1 THEN {} ELSE {activeServo}

\* no channel is attached after one channel was abandoned short of its
\* target and another one has arrived away from its start position
C19_Witness ==
    \E i, j \in Servos :
        /\ activeServo = -1
        /\ Powered = {}
        /\ currentAngles[i] # targetAngles[i]
        /\ currentAngles[j] = targetAngles[j]
        /\ currentAngles[j] # minAngles[j]

\* the READY hint
NoticeReady ==
    <<"READY: Use A..F+angle (e.g., A90, F150), '?' for HELP, 'G' for STATUS">>

\* the end of a pass of loop(): the test of the READY hint
HintStep == pc = "ready" /\ pc' = "drain"

\* C17 as stated: the READY hint is written only when no channel is active
\* and more than 5000 ms have passed since the last line was written (the
\* banner, the reply to a command, a DONE notice or the READY hint before),
\* and writing it starts that time anew
C17_Original ==
    [][(HintStep /\ btOut' = <<NoticeReady>>) =>
            /\ activeServo = -1
            /\ msgElapsed > 5000
            /\ msgElapsed' = 0]_vars

\* a DONE notice
IsDone(lines) ==
    \E c \in Servos : \E a \in Range(c) : lines = <<NoticeDone(c, a)>>

\* C20: the dispatch of a motion command for channel c and an angle a2 of
\* its range while c is the active channel keeps c attached, with no detach
\* of c, keeps c active and every current angle, and makes a2 the target of
\* c; a DONE notice names the active channel, its target and its current
\* angle, ends the activity, and no further DONE comes before the next
\* accepted request; and after such a dispatch, unless another request is
\* accepted first, the DONE notice of c for a2 comes
C20_Retarget ==
    /\ [][DispatchStep =>
            \A c \in Servos : \A a2 \in Range(c) :
                (activeServo = c /\ btCommandBuffer \in MotionText(c, a2)) =>
                    /\ attached[c]
                    /\ attached'[c]
                    /\ c \notin detachedByStep'
                    /\ activeServo' = c
                    /\ currentAngles' = currentAngles
                    /\ targetAngles'[c] = a2
                    /\ activeBefore' = c
                    /\ btOut' = <<NoticeOk(c, a2)>>]_vars
    /\ [][TickStep =>
            /\ btOut' # <<>> =>
                   /\ activeServo # -1
                   /\ btOut' = <<NoticeDone(activeServo, targetAngles[activeServo])>>
                   /\ currentAngles[activeServo] = targetAngles[activeServo]
                   /\ activeServo' = -1
            /\ activeServo = -1 => btOut' = <<>>]_vars
    /\ [][(activeServo = -1 /\ accepted' = accepted) => activeServo' = -1]_vars
    /\ [][(ProgramStep /\ ~TickStep) => ~IsDone(btOut')]_vars
    /\ \A c \in Servos : \A n \in 1 .. MaxLines :
          (/\ activeBefore = c
           /\ activeServo = c
           /\ btOut = <<NoticeOk(c, targetAngles[c])>>
           /\ accepted = n)
             ~> (\/ /\ btOut = <<NoticeDone(c, targetAngles[c])>>
                    /\ currentAngles[c] = targetAngles[c]
                    /\ activeServo = -1
                    /\ accepted = n
                 \/ accepted > n)

\* channel A, one degree on its way to 2, was sent back to 0 and is still
\* attached and active
C20_Witness ==
    /\ dispatched = << <<"A", "0">> >>
    /\ activeBefore = 0
    /\ activeServo = 0
    /\ attached[0]
    /\ currentAngles[0] = 1
    /\ targetAngles[0] = 0
    /\ btOut = <<NoticeOk(0, 0)>>

====
